---- MODULE Spec2Model ----
(***************************************************************************)
(* Session and customer-list synchronisation of the customer dashboard     *)
(* (src/App.tsx).  The component's React state, the closure flag of the    *)
(* auth effect and every suspended async function are the state; each      *)
(* action is one run of a handler from one await to the next.              *)
(***************************************************************************)
EXTENDS Bags, FiniteSets, Integers, Naturals, Sequences, TLC

VARIABLES
    mounted,       \* the auth effect's `mounted` flag (App.tsx:25)
    auth,          \* useState<AuthState> (App.tsx:13)
    customers,     \* useState<Customer[]> (App.tsx:14)
    loading,       \* the busy flag, useState(false) (App.tsx:20)
    authMode,      \* 'login' | 'signup' (App.tsx:18)
    notification,  \* the visible notification or null (App.tsx:21)
    timers,        \* pending setTimeout callbacks of showNotify: bag of due times
    now,           \* the clock the timeouts run against
    initPc,        \* where initializeAuth is suspended (App.tsx:27-40)
    tasks,         \* bag of the other suspended async calls
    db,            \* the Customer persistence service's records
    delivered,     \* history: the Session the delivered events give when applied in order
    lastNotify,    \* history: the last showNotify call and its time
    last,          \* history: the step taken last and the user or tenant it was for
    attempted,     \* history: getProfile was called since the Session was last logged out
    view           \* the input and the result of a derived view (useMemo)

vars == <<mounted, auth, customers, loading, authMode, notification, timers, now,
          initPc, tasks, db, delivered, lastNotify, last, attempted, view>>

----------------------------------------------------------------------------
(* Bounds *)

\* most async calls (other than initializeAuth) suspended at one time
MaxInflight == 2
\* the clock stops here
MaxTime == 6
\* longest customer list given to a derived view
MaxList == 4
\* records in a list given to the search filter, characters in a search text
MaxRows == 2
MaxSearch == 2

----------------------------------------------------------------------------
(* Values *)

Users == {"u1", "u2"}
\* session?.user absent
NoUser == "nouser"
CustomerIds == {"c1", "c2", "c3"}
\* editingCustomer?.id of a new record
NoId == "noid"

\* setTimeout(..., 4000): the notification lifetime, in time-units (seconds)
NotifyDelay == 4

\* profile: null
NoProfile == [id |-> "null"]
\* authService.getProfile(userId): the profile row of that user
GetProfile(userId) == [id |-> userId]
\* auth.profile?.id
ProfileId(profile) == IF profile = NoProfile THEN NoUser ELSE profile.id

\* the initial AuthState of useState
InitialAuth == [isLoggedIn |-> FALSE, profile |-> NoProfile, loading |-> TRUE]
\* { isLoggedIn: false, profile: null, loading: false }
LoggedOut == [isLoggedIn |-> FALSE, profile |-> NoProfile, loading |-> FALSE]
\* { isLoggedIn: true, profile, loading: false }
LoggedIn(profile) == [isLoggedIn |-> TRUE, profile |-> profile, loading |-> FALSE]

\* interface Customer, reduced to its identity and its tenant
Customer(id, tenantId) == [id |-> id, empresa_id |-> tenantId]
\* the records the service holds when the client starts
InitialDb == {Customer("c1", "u1"), Customer("c2", "u2")}

IdRank(id) == CASE id = "c1" -> 1 [] id = "c2" -> 2 [] OTHER -> 3
\* the records of a finite set as a list, in id order
RECURSIVE ListOf(_)
ListOf(S) ==
    IF S = {} THEN <<>>
    ELSE LET c == CHOOSE x \in S : \A y \in S : IdRank(x.id) <= IdRank(y.id)
         IN <<c>> \o ListOf(S \ {c})

\* customerService.fetchAll(tenantId): the tenant's records in the service
FetchAll(records, tenantId) == ListOf({c \in records : c.empresa_id = tenantId})

\* notification: null
NoNotification == [message |-> "", type |-> "null"]
Notification(message, type) == [message |-> message, type |-> type]

----------------------------------------------------------------------------
(* Suspended async calls *)

\* one suspended call: the service call awaited, the profile id or user id the
\* closure holds, and the customer id it carries
Task(kind, who, id) == [kind |-> kind, who |-> who, id |-> id]
One(t) == SetToBag({t})
Suspend(ts, t) == ts (+) One(t)
Resume(ts, t) == ts (-) One(t)
Suspended(t) == BagIn(t, tasks)
\* the model's bound on the suspended calls
WithinBound(ts) == BagCardinality(ts) <= MaxInflight

\* the calls awaited inside handleAuth, handleSaveCustomer, handleDelete, handleLogout
UserKinds == {"signIn", "signUp", "save", "reload", "hardDelete", "signOut"}
\* number of user-triggered operations outstanding
Outstanding(ts) ==
    BagCardinality([t \in {x \in BagToSet(ts) : x.kind \in UserKinds} |-> ts[t]])

----------------------------------------------------------------------------
(* State setters and effects *)

\* the effect without its dependency list: it runs after every Session update
ReloadEffectEveryUpdate(old, new, ts) ==
    IF new.isLoggedIn /\ new.profile # NoProfile
    THEN ts (+) SetToBag({[kind |-> "fetchAll", who |-> new.profile.id, id |-> NoId]})
    ELSE ts

\* useEffect(..., [auth.isLoggedIn, auth.profile?.id]) (App.tsx:70-74): after a
\* render in which a dependency changed, a logged-in session with a profile
\* calls loadCustomers, which suspends in fetchAll(auth.profile.id)
ReloadEffect(old, new, ts) ==
    IF /\ (old.isLoggedIn # new.isLoggedIn \/ ProfileId(old.profile) # ProfileId(new.profile))
       /\ new.isLoggedIn /\ new.profile # NoProfile
    THEN Suspend(ts, Task("fetchAll", new.profile.id, NoId))
    ELSE ts

\* setAuth(new) with the effects of the render it causes; ts: the suspended
\* calls once the caller has resumed
SetAuth(new, ts) ==
    /\ auth' = new
    /\ tasks' = ReloadEffect(auth, new, ts)
    /\ WithinBound(tasks')
    /\ attempted' = (new.isLoggedIn /\ attempted)

\* showNotify(message, type) (App.tsx:86-89)
ShowNotify(message, type) ==
    /\ notification' = Notification(message, type)
    /\ timers' = timers \cup {now + NotifyDelay}
    /\ lastNotify' = [n |-> Notification(message, type), at |-> now]

NoNotify == UNCHANGED <<notification, timers, lastNotify>>

\* customer fetches in flight: of the reload effect, and of handleSaveCustomer
FetchAlls(ts) ==
    BagCardinality([t \in {x \in BagToSet(ts) : x.kind = "fetchAll"} |-> ts[t]])
Reloads(ts) ==
    BagCardinality([t \in {x \in BagToSet(ts) : x.kind = "reload"} |-> ts[t]])

\* history: where a race of the two kinds of customer fetch stands after a
\* step: "first" when one resolved while the other kind was in flight, "last"
\* when the other, the only fetch then in flight, resolved next
FetchEnds ==
    {"LoadCustomersReturns", "LoadCustomersThrows", "ReloadReturns", "ReloadThrows"}
RaceAfter(op) ==
    IF op \in FetchEnds
    THEN IF FetchAlls(tasks) > 0 /\ Reloads(tasks) > 0 THEN "first"
         ELSE IF last.race = "first" /\ FetchAlls(tasks) + Reloads(tasks) = 1 THEN "last"
         ELSE "none"
    ELSE IF last.race = "last" THEN "none" ELSE last.race

\* history: the step just taken
Step(op, who) == [op |-> op, who |-> who, race |-> RaceAfter(op)]

\* history: the Session the events give when applied in delivery order;
\* tracked from the end of initializeAuth when no event came before it
Track(a) == [tracking |-> "on", isLoggedIn |-> a.isLoggedIn, user |-> ProfileId(a.profile)]
Untracked == [tracking |-> "off", isLoggedIn |-> FALSE, user |-> NoUser]
AfterInit(a) == IF delivered.tracking = "init" THEN Track(a) ELSE delivered
AfterEvent(d) == IF delivered.tracking = "on" THEN d ELSE Untracked

----------------------------------------------------------------------------
(* Derived views (App.tsx:91-102) *)

\* enum CustomerStatus (types.ts:2-6)
ACTIVE == "ativo"
INACTIVE == "inativo"
PENDING == "pendente"
CustomerStatus == {ACTIVE, INACTIVE, PENDING}

\* inactive counting only the records of status inactive
StatsInactiveOnly(list) ==
    [total |-> Len(list),
     active |-> Len(SelectSeq(list, LAMBDA c : c.status = ACTIVE)),
     inactive |-> Len(SelectSeq(list, LAMBDA c : c.status = INACTIVE))]

\* stats: the useMemo over customers (App.tsx:98-102)
Stats(list) ==
    [total |-> Len(list),
     active |-> Len(SelectSeq(list, LAMBDA c : c.status = ACTIVE)),
     inactive |-> Len(SelectSeq(list, LAMBDA c : c.status # ACTIVE))]

\* customer lists given to a derived view, each record reduced to its status
RECURSIVE StatusLists(_)
StatusLists(n) ==
    IF n = 0 THEN {<<>>}
    ELSE LET shorter == StatusLists(n - 1)
         IN shorter \cup {Append(l, [status |-> st]) : l \in shorter, st \in CustomerStatus}

\* no derived view under study: the first render, of the empty list
IdleView == [pc |-> "idle", list |-> <<>>, stats |-> Stats(<<>>)]

\* strings are sequences of characters
Chars == {"a", "A", "n", "1"}
\* String.prototype.toLowerCase, character by character
LowerChar(ch) == IF ch = "A" THEN "a" ELSE ch
ToLowerCase(str) == [i \in DOMAIN str |-> LowerChar(str[i])]
\* String.prototype.includes
Includes(str, sub) ==
    \E i \in 0..(Len(str) - Len(sub)) : SubSeq(str, i + 1, i + Len(sub)) = sub

\* the filter comparing the name as typed, without lowering the cases
FilteredCustomersCaseSensitive(list, search) ==
    SelectSeq(list, LAMBDA c : Includes(c.name, search) \/ Includes(c.phone, search))

\* filteredCustomers: the useMemo over customers and search (App.tsx:91-96)
FilteredCustomers(list, search) ==
    SelectSeq(list, LAMBDA c : \/ Includes(ToLowerCase(c.name), ToLowerCase(search))
                               \/ Includes(c.phone, search))

\* the strings typed in the search box, up to a length
RECURSIVE Strings(_)
Strings(n) ==
    IF n = 0 THEN {<<>>}
    ELSE LET shorter == Strings(n - 1)
         IN shorter \cup {Append(str, ch) : str \in shorter, ch \in Chars}

\* records given to the filter, each reduced to its name and phone
SearchRecords ==
    {[name |-> nm, phone |-> ph] : nm \in {<<"A", "n", "a">>, <<"a", "n">>, <<"n", "A">>, <<>>},
                                   ph \in {<<"1", "1">>, <<"1">>}}
RECURSIVE SearchLists(_)
SearchLists(n) ==
    IF n = 0 THEN {<<>>}
    ELSE LET shorter == SearchLists(n - 1)
         IN shorter \cup {Append(l, c) : l \in shorter, c \in SearchRecords}

----------------------------------------------------------------------------
(* Initial state: the first render and the start of the mount effects *)

InitApp ==
    /\ mounted = TRUE
    /\ auth = InitialAuth
    /\ customers = <<>>
    /\ loading = FALSE
    /\ authMode = "login"
    /\ notification = NoNotification
    /\ timers = {}
    /\ now = 0
    /\ initPc = [pc |-> "getSession", user |-> NoUser]
    /\ tasks = EmptyBag
    /\ db = InitialDb
    /\ delivered = [tracking |-> "init", isLoggedIn |-> FALSE, user |-> NoUser]
    /\ lastNotify = [n |-> NoNotification, at |-> 0]
    /\ last = [op |-> "Init", who |-> NoUser, race |-> "none"]
    /\ attempted = FALSE

Init == InitApp /\ view = IdleView

----------------------------------------------------------------------------
(* initializeAuth (App.tsx:27-40) *)

InitDone == [pc |-> "done", user |-> NoUser]

\* supabase.auth.getSession() returns: with a user the profile fetch starts,
\* without one the session is logged out; both only while mounted
GetSessionReturns(user) ==
    /\ last' = Step("GetSessionReturns", user)
    /\ UNCHANGED view
    /\ initPc.pc = "getSession"
    /\ IF user # NoUser /\ mounted
       THEN /\ initPc' = [pc |-> "getProfile", user |-> user]
            /\ attempted' = TRUE
            /\ UNCHANGED <<auth, tasks, delivered>>
       ELSE /\ initPc' = InitDone
            /\ IF mounted
               THEN SetAuth(LoggedOut, tasks) /\ delivered' = AfterInit(LoggedOut)
               ELSE UNCHANGED <<auth, tasks, attempted>> /\ delivered' = Untracked
    /\ UNCHANGED <<mounted, customers, loading, authMode, notification, timers, now,
                   db, lastNotify>>

\* a catch block that keeps the profile: setAuth(prev => ({...prev, isLoggedIn: false, loading: false}))
GetSessionThrowsKeepsProfile ==
    /\ last' = Step("GetSessionThrows", NoUser)
    /\ UNCHANGED view
    /\ initPc.pc = "getSession"
    /\ initPc' = InitDone
    /\ IF mounted
       THEN /\ SetAuth([auth EXCEPT !.isLoggedIn = FALSE, !.loading = FALSE], tasks)
            /\ delivered' = AfterInit(LoggedOut)
       ELSE UNCHANGED <<auth, tasks, attempted>> /\ delivered' = Untracked
    /\ UNCHANGED <<mounted, customers, loading, authMode, notification, timers, now,
                   db, lastNotify>>

\* supabase.auth.getSession() throws: the catch block
GetSessionThrows ==
    /\ last' = Step("GetSessionThrows", NoUser)
    /\ UNCHANGED view
    /\ initPc.pc = "getSession"
    /\ initPc' = InitDone
    /\ IF mounted
       THEN SetAuth(LoggedOut, tasks) /\ delivered' = AfterInit(LoggedOut)
       ELSE UNCHANGED <<auth, tasks, attempted>> /\ delivered' = Untracked
    /\ UNCHANGED <<mounted, customers, loading, authMode, notification, timers, now,
                   db, lastNotify>>

\* the profile fetch of initializeAuth returns (App.tsx:31-32)
InitProfileReturns ==
    /\ last' = Step("InitProfileReturns", initPc.user)
    /\ UNCHANGED view
    /\ initPc.pc = "getProfile"
    /\ initPc' = InitDone
    /\ SetAuth(LoggedIn(GetProfile(initPc.user)), tasks)
    /\ delivered' = AfterInit(LoggedIn(GetProfile(initPc.user)))
    /\ UNCHANGED <<mounted, customers, loading, authMode, notification, timers, now,
                   db, lastNotify>>

\* a catch block that only logs the error
InitProfileThrowsSilently ==
    /\ last' = Step("InitProfileThrows", initPc.user)
    /\ UNCHANGED view
    /\ initPc.pc = "getProfile"
    /\ initPc' = InitDone
    /\ delivered' = IF mounted THEN AfterInit(auth) ELSE Untracked
    /\ UNCHANGED <<auth, tasks, attempted>>
    /\ UNCHANGED <<mounted, customers, loading, authMode, notification, timers, now,
                   db, lastNotify>>

\* the profile fetch of initializeAuth throws: the catch block (App.tsx:36-39)
InitProfileThrows ==
    /\ last' = Step("InitProfileThrows", initPc.user)
    /\ UNCHANGED view
    /\ initPc.pc = "getProfile"
    /\ initPc' = InitDone
    /\ IF mounted
       THEN SetAuth(LoggedOut, tasks) /\ delivered' = AfterInit(LoggedOut)
       ELSE UNCHANGED <<auth, tasks, attempted>> /\ delivered' = Untracked
    /\ UNCHANGED <<mounted, customers, loading, authMode, notification, timers, now,
                   db, lastNotify>>

----------------------------------------------------------------------------
(* The onAuthStateChange handler (App.tsx:44-62) and the cleanup (64-67) *)

\* a handler that shows the preloader while it fetches the profile
SignedInShowsLoading(user) ==
    /\ last' = Step("SignedIn", user)
    /\ UNCHANGED view
    /\ attempted' = TRUE
    /\ mounted
    /\ auth' = [auth EXCEPT !.loading = TRUE]
    /\ tasks' = Suspend(tasks, Task("getProfile", user, NoId))
    /\ WithinBound(tasks')
    /\ delivered' = AfterEvent([tracking |-> "on", isLoggedIn |-> TRUE, user |-> user])
    /\ UNCHANGED <<mounted, customers, loading, authMode, notification, timers,
                   now, initPc, db, lastNotify>>

\* SIGNED_IN with a session user: the handler suspends in getProfile
SignedIn(user) ==
    /\ last' = Step("SignedIn", user)
    /\ UNCHANGED view
    /\ attempted' = TRUE
    /\ mounted
    /\ tasks' = Suspend(tasks, Task("getProfile", user, NoId))
    /\ WithinBound(tasks')
    /\ delivered' = AfterEvent([tracking |-> "on", isLoggedIn |-> TRUE, user |-> user])
    /\ UNCHANGED <<mounted, auth, customers, loading, authMode, notification, timers,
                   now, initPc, db, lastNotify>>

\* the profile fetch of a SIGNED_IN handler returns (App.tsx:49-50)
SignedInProfileReturns(user) ==
    /\ last' = Step("SignedInProfileReturns", user)
    /\ UNCHANGED view
    /\ Suspended(Task("getProfile", user, NoId))
    /\ SetAuth(LoggedIn(GetProfile(user)), Resume(tasks, Task("getProfile", user, NoId)))
    /\ UNCHANGED <<mounted, customers, loading, authMode, notification, timers, now,
                   initPc, db, delivered, lastNotify>>

\* the catch block taken from initializeAuth: the login is failed
SignedInProfileThrowsLogsOut(user) ==
    /\ last' = Step("SignedInProfileThrows", user)
    /\ UNCHANGED view
    /\ Suspended(Task("getProfile", user, NoId))
    /\ SetAuth(LoggedOut, Resume(tasks, Task("getProfile", user, NoId)))
    /\ UNCHANGED <<mounted, customers, loading, authMode, notification, timers, now,
                   initPc, db, delivered, lastNotify>>

\* the profile fetch of a SIGNED_IN handler throws (App.tsx:51-53)
SignedInProfileThrows(user) ==
    /\ last' = Step("SignedInProfileThrows", user)
    /\ UNCHANGED view
    /\ Suspended(Task("getProfile", user, NoId))
    /\ SetAuth(LoggedIn(NoProfile), Resume(tasks, Task("getProfile", user, NoId)))
    /\ UNCHANGED <<mounted, customers, loading, authMode, notification, timers, now,
                   initPc, db, delivered, lastNotify>>

\* the handler without its setCustomers([])
SignedOutKeepsList(event) ==
    /\ last' = Step("SignedOut", NoUser)
    /\ UNCHANGED view
    /\ mounted
    /\ SetAuth(LoggedOut, tasks)
    /\ delivered' = AfterEvent(Track(LoggedOut))
    /\ UNCHANGED <<mounted, customers, loading, authMode, notification, timers, now,
                   initPc, db, lastNotify>>

\* SIGNED_OUT or USER_DELETED (App.tsx:55-57)
SignedOut(event) ==
    /\ last' = Step("SignedOut", NoUser)
    /\ UNCHANGED view
    /\ mounted
    /\ SetAuth(LoggedOut, tasks)
    /\ customers' = <<>>
    /\ delivered' = AfterEvent(Track(LoggedOut))
    /\ UNCHANGED <<mounted, loading, authMode, notification, timers, now, initPc, db,
                   lastNotify>>

\* the event handled like SIGNED_IN: the profile is fetched again
TokenRefreshedRefetches(user) ==
    /\ last' = Step("TokenRefreshed", user)
    /\ UNCHANGED view
    /\ attempted' = TRUE
    /\ mounted
    /\ tasks' = Suspend(tasks, Task("getProfile", user, NoId))
    /\ WithinBound(tasks')
    /\ delivered' = AfterEvent([delivered EXCEPT !.isLoggedIn = TRUE])
    /\ UNCHANGED <<mounted, auth, customers, loading, authMode, notification, timers,
                   now, initPc, db, lastNotify>>

\* TOKEN_REFRESHED with a session user (App.tsx:58-61)
TokenRefreshed(user) ==
    /\ last' = Step("TokenRefreshed", user)
    /\ UNCHANGED view
    /\ mounted
    /\ SetAuth([auth EXCEPT !.isLoggedIn = TRUE], tasks)
    /\ delivered' = AfterEvent([delivered EXCEPT !.isLoggedIn = TRUE])
    /\ UNCHANGED <<mounted, customers, loading, authMode, notification, timers, now,
                   initPc, db, lastNotify>>

\* an event after the cleanup (App.tsx:45), or one no branch takes (SIGNED_IN
\* or TOKEN_REFRESHED without a session user, any other event)
IgnoredEvent(event, user) ==
    /\ \/ ~mounted
       \/ event \in {"SIGNED_IN", "TOKEN_REFRESHED"} /\ user = NoUser
       \/ event = "USER_UPDATED"
    /\ UNCHANGED vars

\* the effect's cleanup (App.tsx:64-67).  Calls already suspended resume
\* afterwards and run as written: the source tests `mounted` only where the
\* actions above do, and the setters they call are applied to the state.
Unmount ==
    /\ last' = Step("Unmount", NoUser)
    /\ UNCHANGED view
    /\ UNCHANGED attempted
    /\ mounted
    /\ mounted' = FALSE
    /\ UNCHANGED <<auth, customers, loading, authMode, notification, timers, now,
                   initPc, tasks, db, delivered, lastNotify>>

----------------------------------------------------------------------------
(* loadCustomers called by the reload effect (App.tsx:76-84) *)

\* the fetched records merged into the list one by one
LoadCustomersReturnsMerges(tenantId) ==
    /\ last' = Step("LoadCustomersReturns", tenantId)
    /\ UNCHANGED view
    /\ UNCHANGED attempted
    /\ Suspended(Task("fetchAll", tenantId, NoId))
    /\ tasks' = Resume(tasks, Task("fetchAll", tenantId, NoId))
    /\ customers' = customers \o SelectSeq(FetchAll(db, tenantId),
                                            LAMBDA c : \A i \in DOMAIN customers : customers[i] # c)
    /\ NoNotify
    /\ UNCHANGED <<mounted, auth, loading, authMode, now, initPc, db, delivered>>

\* fetchAll returns: the list is replaced
LoadCustomersReturns(tenantId) ==
    /\ last' = Step("LoadCustomersReturns", tenantId)
    /\ UNCHANGED view
    /\ UNCHANGED attempted
    /\ Suspended(Task("fetchAll", tenantId, NoId))
    /\ tasks' = Resume(tasks, Task("fetchAll", tenantId, NoId))
    /\ customers' = FetchAll(db, tenantId)
    /\ NoNotify
    /\ UNCHANGED <<mounted, auth, loading, authMode, now, initPc, db, delivered>>

\* the failure emptying the list
LoadCustomersThrowsClears(tenantId) ==
    /\ last' = Step("LoadCustomersThrows", tenantId)
    /\ UNCHANGED view
    /\ UNCHANGED attempted
    /\ Suspended(Task("fetchAll", tenantId, NoId))
    /\ tasks' = Resume(tasks, Task("fetchAll", tenantId, NoId))
    /\ customers' = <<>>
    /\ ShowNotify("Falha ao carregar lista de clientes.", "error")
    /\ UNCHANGED <<mounted, auth, loading, authMode, now, initPc, db, delivered>>

\* fetchAll throws: the list is kept and the failure is notified
LoadCustomersThrows(tenantId) ==
    /\ last' = Step("LoadCustomersThrows", tenantId)
    /\ UNCHANGED view
    /\ UNCHANGED attempted
    /\ Suspended(Task("fetchAll", tenantId, NoId))
    /\ tasks' = Resume(tasks, Task("fetchAll", tenantId, NoId))
    /\ ShowNotify("Falha ao carregar lista de clientes.", "error")
    /\ UNCHANGED <<mounted, auth, customers, loading, authMode, now, initPc, db, delivered>>

----------------------------------------------------------------------------
(* What is rendered (App.tsx:202, 217, 294) *)

\* the login / signup form is on screen
LoginScreen == mounted /\ ~auth.loading /\ ~auth.isLoggedIn
\* the dashboard is on screen
Dashboard == mounted /\ ~auth.loading /\ auth.isLoggedIn

\* ids of the records listed on the dashboard
ListedIds == {customers[i].id : i \in 1..Len(customers)}

----------------------------------------------------------------------------
(* handleAuth (App.tsx:104-124) *)

\* err.message of a rejected auth call
AuthErrors == {"", "Invalid login credentials"}
\* err.message || 'Erro ao processar autenticação.'
AuthErrorText(message) == IF message = "" THEN "Erro ao processar autenticação." ELSE message

\* the link under the form (App.tsx:279-282), disabled while busy
ToggleAuthMode ==
    /\ last' = Step("ToggleAuthMode", NoUser)
    /\ UNCHANGED view
    /\ UNCHANGED attempted
    /\ LoginScreen
    /\ ~loading
    /\ authMode' = (IF authMode = "login" THEN "signup" ELSE "login")
    /\ UNCHANGED <<mounted, auth, customers, loading, notification, timers, now, initPc,
                   tasks, db, delivered, lastNotify>>

\* the handler without the terms test: signUp is always called
HandleAuthNoTermsCheck(terms) ==
    /\ last' = Step(IF authMode = "signup" /\ ~terms THEN "HandleAuthNoTerms" ELSE "HandleAuth",
                    NoUser)
    /\ UNCHANGED view
    /\ UNCHANGED attempted
    /\ LoginScreen
    /\ ~loading
    /\ loading' = TRUE
    /\ tasks' = Suspend(tasks, Task(IF authMode = "signup" THEN "signUp" ELSE "signIn",
                                    NoUser, NoId))
    /\ WithinBound(tasks')
    /\ NoNotify
    /\ UNCHANGED <<mounted, auth, customers, authMode, now, initPc, db, delivered>>

\* the form is submitted (the button is disabled, and the handler returns,
\* while busy); terms: authForm.terms
HandleAuth(terms) ==
    /\ last' = Step(IF authMode = "signup" /\ ~terms THEN "HandleAuthNoTerms" ELSE "HandleAuth",
                    NoUser)
    /\ UNCHANGED view
    /\ UNCHANGED attempted
    /\ LoginScreen
    /\ ~loading
    /\ IF authMode = "signup" /\ ~terms
       THEN \* the throw inside try, the catch and the finally run at once
            /\ ShowNotify("Você precisa aceitar os termos da LGPD.", "error")
            /\ loading' = FALSE
            /\ UNCHANGED tasks
       ELSE /\ loading' = TRUE
            /\ tasks' = Suspend(tasks, Task(IF authMode = "signup" THEN "signUp" ELSE "signIn",
                                            NoUser, NoId))
            /\ WithinBound(tasks')
            /\ NoNotify
    /\ UNCHANGED <<mounted, auth, customers, authMode, now, initPc, db, delivered>>

\* authService.signUp returns (App.tsx:113-114, 122)
SignUpReturns ==
    /\ last' = Step("SignUpReturns", NoUser)
    /\ UNCHANGED view
    /\ UNCHANGED attempted
    /\ Suspended(Task("signUp", NoUser, NoId))
    /\ tasks' = Resume(tasks, Task("signUp", NoUser, NoId))
    /\ ShowNotify("Cadastro realizado! Se o e-mail de confirmação estiver ativo, verifique sua caixa de entrada.", "success")
    /\ authMode' = "login"
    /\ loading' = FALSE
    /\ UNCHANGED <<mounted, auth, customers, now, initPc, db, delivered>>

\* the handler logging the user in itself, without waiting for SIGNED_IN
SignInReturnsLogsIn ==
    /\ last' = Step("SignInReturns", NoUser)
    /\ UNCHANGED view
    /\ Suspended(Task("signIn", NoUser, NoId))
    /\ SetAuth(LoggedIn(NoProfile), Resume(tasks, Task("signIn", NoUser, NoId)))
    /\ ShowNotify("Bem-vindo de volta!", "success")
    /\ loading' = FALSE
    /\ UNCHANGED <<mounted, customers, authMode, now, initPc, db, delivered>>

\* authService.signIn returns (App.tsx:117, 122)
SignInReturns ==
    /\ last' = Step("SignInReturns", NoUser)
    /\ UNCHANGED view
    /\ UNCHANGED attempted
    /\ Suspended(Task("signIn", NoUser, NoId))
    /\ tasks' = Resume(tasks, Task("signIn", NoUser, NoId))
    /\ ShowNotify("Bem-vindo de volta!", "success")
    /\ loading' = FALSE
    /\ UNCHANGED <<mounted, auth, customers, authMode, now, initPc, db, delivered>>

\* authService.signUp or signIn throws (App.tsx:119-122)
AuthCallThrows(kind, message) ==
    /\ last' = Step("AuthCallThrows", NoUser)
    /\ UNCHANGED view
    /\ UNCHANGED attempted
    /\ kind \in {"signUp", "signIn"}
    /\ Suspended(Task(kind, NoUser, NoId))
    /\ tasks' = Resume(tasks, Task(kind, NoUser, NoId))
    /\ ShowNotify(AuthErrorText(message), "error")
    /\ loading' = FALSE
    /\ UNCHANGED <<mounted, auth, customers, authMode, now, initPc, db, delivered>>

----------------------------------------------------------------------------
(* The Customer persistence service (services/api, behind customerService) *)

\* save(payload): upsert by id presence; a new record gets an unused id
FreshIds(records) == CustomerIds \ {c.id : c \in records}
SaveAccepted(records, id, tenantId) ==
    IF id = NoId THEN FreshIds(records) # {}
    ELSE \A c \in records : c.id = id => c.empresa_id = tenantId
Saved(records, id, tenantId) ==
    IF id = NoId
    THEN records \cup {Customer(CHOOSE i \in FreshIds(records) :
                                   \A j \in FreshIds(records) : IdRank(i) <= IdRank(j),
                                tenantId)}
    ELSE {c \in records : c.id # id} \cup {Customer(id, tenantId)}

\* hardDelete(id, tenantId): only a record of that tenant
DeleteAccepted(records, id, tenantId) == Customer(id, tenantId) \in records
Deleted(records, id, tenantId) == records \ {Customer(id, tenantId)}

----------------------------------------------------------------------------
(* handleSaveCustomer (App.tsx:126-157) *)

\* the form is submitted (its button is disabled while busy); id: editingCustomer?.id
HandleSaveCustomer(id) ==
    /\ last' = Step("HandleSaveCustomer", ProfileId(auth.profile))
    /\ UNCHANGED view
    /\ UNCHANGED attempted
    /\ Dashboard
    /\ ~loading
    /\ auth.profile # NoProfile
    /\ id \in ListedIds \cup {NoId}
    /\ loading' = TRUE
    /\ tasks' = Suspend(tasks, Task("save", auth.profile.id, id))
    /\ WithinBound(tasks')
    /\ UNCHANGED <<mounted, auth, customers, authMode, notification, timers, now, initPc,
                   db, delivered, lastNotify>>

\* customerService.save returns: loadCustomers of the same render is called
\* and suspends in fetchAll of the profile that render held (App.tsx:147-148, 79)
SaveReturns(tenantId, id) ==
    /\ last' = Step("SaveReturns", tenantId)
    /\ UNCHANGED view
    /\ UNCHANGED attempted
    /\ Suspended(Task("save", tenantId, id))
    /\ SaveAccepted(db, id, tenantId)
    /\ db' = Saved(db, id, tenantId)
    /\ tasks' = Suspend(Resume(tasks, Task("save", tenantId, id)), Task("reload", tenantId, NoId))
    /\ UNCHANGED <<mounted, auth, customers, loading, authMode, notification, timers, now,
                   initPc, delivered, lastNotify>>

\* customerService.save throws (App.tsx:152-155)
SaveThrows(tenantId, id) ==
    /\ last' = Step("SaveThrows", tenantId)
    /\ UNCHANGED view
    /\ UNCHANGED attempted
    /\ Suspended(Task("save", tenantId, id))
    /\ tasks' = Resume(tasks, Task("save", tenantId, id))
    /\ ShowNotify("Erro ao salvar no servidor.", "error")
    /\ loading' = FALSE
    /\ UNCHANGED <<mounted, auth, customers, authMode, now, initPc, db, delivered>>

\* the reload appending the fetched records to the list
ReloadReturnsAppends(tenantId) ==
    /\ last' = Step("ReloadReturns", tenantId)
    /\ UNCHANGED view
    /\ UNCHANGED attempted
    /\ Suspended(Task("reload", tenantId, NoId))
    /\ tasks' = Resume(tasks, Task("reload", tenantId, NoId))
    /\ customers' = customers \o FetchAll(db, tenantId)
    /\ ShowNotify("Alterações salvas com sucesso.", "success")
    /\ loading' = FALSE
    /\ UNCHANGED <<mounted, auth, authMode, now, initPc, db, delivered>>

\* the fetchAll of the reload returns (App.tsx:80, 149-151, 155)
ReloadReturns(tenantId) ==
    /\ last' = Step("ReloadReturns", tenantId)
    /\ UNCHANGED view
    /\ UNCHANGED attempted
    /\ Suspended(Task("reload", tenantId, NoId))
    /\ tasks' = Resume(tasks, Task("reload", tenantId, NoId))
    /\ customers' = FetchAll(db, tenantId)
    /\ ShowNotify("Alterações salvas com sucesso.", "success")
    /\ loading' = FALSE
    /\ UNCHANGED <<mounted, auth, authMode, now, initPc, db, delivered>>

\* the fetchAll of the reload throws: loadCustomers notifies the failure and
\* returns, and handleSaveCustomer goes on to its success notification
\* (App.tsx:81-83, 149-151, 155)
ReloadThrows(tenantId) ==
    /\ last' = Step("ReloadThrows", tenantId)
    /\ UNCHANGED view
    /\ UNCHANGED attempted
    /\ Suspended(Task("reload", tenantId, NoId))
    /\ tasks' = Resume(tasks, Task("reload", tenantId, NoId))
    /\ ShowNotify("Alterações salvas com sucesso.", "success")
    /\ loading' = FALSE
    /\ UNCHANGED <<mounted, auth, customers, authMode, now, initPc, db, delivered>>

----------------------------------------------------------------------------
(* handleDelete (App.tsx:159-173) *)

\* the trash button of a listed record is clicked and the dialog confirmed
HandleDelete(id) ==
    /\ last' = Step("HandleDelete", ProfileId(auth.profile))
    /\ UNCHANGED view
    /\ UNCHANGED attempted
    /\ Dashboard
    /\ auth.profile # NoProfile
    /\ id \in ListedIds
    /\ loading' = TRUE
    /\ tasks' = Suspend(tasks, Task("hardDelete", auth.profile.id, id))
    /\ WithinBound(tasks')
    /\ UNCHANGED <<mounted, auth, customers, authMode, notification, timers, now, initPc,
                   db, delivered, lastNotify>>

\* the handler dropping the first listed record, whatever its id
HardDeleteReturnsDropsFirst(tenantId, id) ==
    /\ last' = Step("HardDeleteReturns", tenantId)
    /\ UNCHANGED view
    /\ UNCHANGED attempted
    /\ Suspended(Task("hardDelete", tenantId, id))
    /\ DeleteAccepted(db, id, tenantId)
    /\ db' = Deleted(db, id, tenantId)
    /\ tasks' = Resume(tasks, Task("hardDelete", tenantId, id))
    /\ customers' = IF customers = <<>> THEN <<>> ELSE Tail(customers)
    /\ ShowNotify("Cliente excluído permanentemente.", "success")
    /\ loading' = FALSE
    /\ UNCHANGED <<mounted, auth, authMode, now, initPc, delivered>>

\* customerService.hardDelete returns (App.tsx:166-167, 171)
HardDeleteReturns(tenantId, id) ==
    /\ last' = Step("HardDeleteReturns", tenantId)
    /\ UNCHANGED view
    /\ UNCHANGED attempted
    /\ Suspended(Task("hardDelete", tenantId, id))
    /\ DeleteAccepted(db, id, tenantId)
    /\ db' = Deleted(db, id, tenantId)
    /\ tasks' = Resume(tasks, Task("hardDelete", tenantId, id))
    /\ customers' = SelectSeq(customers, LAMBDA c : c.id # id)
    /\ ShowNotify("Cliente excluído permanentemente.", "success")
    /\ loading' = FALSE
    /\ UNCHANGED <<mounted, auth, authMode, now, initPc, delivered>>

\* customerService.hardDelete throws (App.tsx:168-171)
HardDeleteThrows(tenantId, id) ==
    /\ last' = Step("HardDeleteThrows", tenantId)
    /\ UNCHANGED view
    /\ UNCHANGED attempted
    /\ Suspended(Task("hardDelete", tenantId, id))
    /\ tasks' = Resume(tasks, Task("hardDelete", tenantId, id))
    /\ ShowNotify("Falha ao deletar registro.", "error")
    /\ loading' = FALSE
    /\ UNCHANGED <<mounted, auth, customers, authMode, now, initPc, db, delivered>>

----------------------------------------------------------------------------
(* handleLogout (App.tsx:175-184) *)

\* the logout button is clicked
HandleLogout ==
    /\ last' = Step("HandleLogout", NoUser)
    /\ UNCHANGED view
    /\ UNCHANGED attempted
    /\ Dashboard
    /\ loading' = TRUE
    /\ tasks' = Suspend(tasks, Task("signOut", NoUser, NoId))
    /\ WithinBound(tasks')
    /\ UNCHANGED <<mounted, auth, customers, authMode, notification, timers, now, initPc,
                   db, delivered, lastNotify>>

\* authService.signOut returns (App.tsx:182)
SignOutReturns ==
    /\ last' = Step("SignOutReturns", NoUser)
    /\ UNCHANGED view
    /\ UNCHANGED attempted
    /\ Suspended(Task("signOut", NoUser, NoId))
    /\ tasks' = Resume(tasks, Task("signOut", NoUser, NoId))
    /\ loading' = FALSE
    /\ UNCHANGED <<mounted, auth, customers, authMode, notification, timers, now, initPc,
                   db, delivered, lastNotify>>

\* authService.signOut throws (App.tsx:179-182)
SignOutThrows ==
    /\ last' = Step("SignOutThrows", NoUser)
    /\ UNCHANGED view
    /\ UNCHANGED attempted
    /\ Suspended(Task("signOut", NoUser, NoId))
    /\ tasks' = Resume(tasks, Task("signOut", NoUser, NoId))
    /\ ShowNotify("Falha ao sair. Recarregue a página.", "error")
    /\ loading' = FALSE
    /\ UNCHANGED <<mounted, auth, customers, authMode, now, initPc, db, delivered>>

----------------------------------------------------------------------------
(* exportCSV (App.tsx:186-199), as far as it notifies *)

ExportCSV ==
    /\ last' = Step("ExportCSV", NoUser)
    /\ UNCHANGED view
    /\ UNCHANGED attempted
    /\ Dashboard
    /\ IF Len(customers) = 0
       THEN ShowNotify("Não há dados para exportar.", "error")
       ELSE ShowNotify("CSV gerado com sucesso.", "success")
    /\ UNCHANGED <<mounted, auth, customers, loading, authMode, now, initPc, tasks, db,
                   delivered>>

----------------------------------------------------------------------------
(* Time and the timeouts of showNotify (App.tsx:88) *)

\* a due timeout runs setNotification(null)
TimerFires(due) ==
    /\ last' = Step("TimerFires", NoUser)
    /\ UNCHANGED view
    /\ UNCHANGED attempted
    /\ due \in timers
    /\ due <= now
    /\ timers' = timers \ {due}
    /\ notification' = NoNotification
    /\ UNCHANGED <<mounted, auth, customers, loading, authMode, now, initPc, tasks, db,
                   delivered, lastNotify>>

\* one time-unit passes; a due timeout runs first
Tick ==
    /\ last' = Step("Tick", NoUser)
    /\ UNCHANGED view
    /\ UNCHANGED attempted
    /\ now < MaxTime
    /\ \A due \in timers : due > now
    /\ now' = now + 1
    /\ UNCHANGED <<mounted, auth, customers, loading, authMode, notification, timers,
                   initPc, tasks, db, delivered, lastNotify>>

----------------------------------------------------------------------------
(* Specifications *)

Events ==
    \/ \E user \in Users : SignedIn(user)
    \/ \E user \in Users : SignedInProfileReturns(user)
    \/ \E user \in Users : SignedInProfileThrows(user)
    \/ \E event \in {"SIGNED_OUT", "USER_DELETED"} : SignedOut(event)
    \/ \E user \in Users : TokenRefreshed(user)
    \/ \E event \in {"SIGNED_IN", "TOKEN_REFRESHED", "USER_UPDATED"} :
          \E user \in Users \cup {NoUser} : IgnoredEvent(event, user)
    \/ Unmount

Startup ==
    \/ \E user \in Users \cup {NoUser} : GetSessionReturns(user)
    \/ GetSessionThrows
    \/ InitProfileReturns
    \/ InitProfileThrows

Loads ==
    \/ \E tenantId \in Users : LoadCustomersReturns(tenantId)
    \/ \E tenantId \in Users : LoadCustomersThrows(tenantId)

UserActions ==
    \/ ToggleAuthMode
    \/ \E terms \in BOOLEAN : HandleAuth(terms)
    \/ SignUpReturns
    \/ SignInReturns
    \/ \E kind \in {"signUp", "signIn"} : \E message \in AuthErrors : AuthCallThrows(kind, message)
    \/ \E id \in CustomerIds \cup {NoId} : HandleSaveCustomer(id)
    \/ \E tenantId \in Users : \E id \in CustomerIds \cup {NoId} : SaveReturns(tenantId, id)
    \/ \E tenantId \in Users : \E id \in CustomerIds \cup {NoId} : SaveThrows(tenantId, id)
    \/ \E tenantId \in Users : ReloadReturns(tenantId)
    \/ \E tenantId \in Users : ReloadThrows(tenantId)
    \/ \E id \in CustomerIds : HandleDelete(id)
    \/ \E tenantId \in Users : \E id \in CustomerIds : HardDeleteReturns(tenantId, id)
    \/ \E tenantId \in Users : \E id \in CustomerIds : HardDeleteThrows(tenantId, id)
    \/ HandleLogout
    \/ SignOutReturns
    \/ SignOutThrows
    \/ ExportCSV

Clock ==
    \/ \E due \in 0..(MaxTime + NotifyDelay) : TimerFires(due)
    \/ Tick

\* the whole component
Next == Startup \/ Events \/ Loads \/ UserActions \/ Clock
Spec == Init /\ [][Next]_vars

\* the Session Store and the reloads it starts: no user action is taken
NextSession == Startup \/ Events \/ Loads
SpecSession == Init /\ [][NextSession]_vars

\* the user's operations on the session found at startup: no auth event comes
NextUser == Startup \/ Loads \/ UserActions
SpecUser == Init /\ [][NextUser]_vars

\* the notifications of the login form and of the export, against the clock
NextNotify ==
    \/ Startup
    \/ Loads
    \/ ToggleAuthMode
    \/ \E terms \in BOOLEAN : HandleAuth(terms)
    \/ SignUpReturns
    \/ SignInReturns
    \/ \E kind \in {"signUp", "signIn"} : \E message \in AuthErrors : AuthCallThrows(kind, message)
    \/ ExportCSV
    \/ Clock
SpecNotify == Init /\ [][NextNotify]_vars

\* sign-in, sign-up and sign-out by the user, with the SIGNED_IN and
\* SIGNED_OUT events that follow them: no customer is saved or deleted
NextAuth ==
    \/ Startup
    \/ \E user \in Users : SignedIn(user)
    \/ \E user \in Users : SignedInProfileReturns(user)
    \/ \E user \in Users : SignedInProfileThrows(user)
    \/ SignedOut("SIGNED_OUT")
    \/ Loads
    \/ ToggleAuthMode
    \/ \E terms \in BOOLEAN : HandleAuth(terms)
    \/ SignUpReturns
    \/ SignInReturns
    \/ \E kind \in {"signUp", "signIn"} : \E message \in AuthErrors : AuthCallThrows(kind, message)
    \/ HandleLogout
    \/ SignOutReturns
    \/ SignOutThrows
SpecAuth == Init /\ [][NextAuth]_vars

\* stats over a customer list drawn at the start
InitStats ==
    /\ InitApp
    /\ view \in {[pc |-> "input", list |-> l, stats |-> Stats(<<>>)] : l \in StatusLists(MaxList)}
\* a render with that list: the memo is computed
ComputeStats ==
    /\ view.pc = "input"
    /\ view' = [pc |-> "done", list |-> view.list, stats |-> Stats(view.list)]
    /\ UNCHANGED <<mounted, auth, customers, loading, authMode, notification, timers, now,
                   initPc, tasks, db, delivered, lastNotify, last, attempted>>
SpecStats == InitStats /\ [][ComputeStats]_vars

\* the filter over a customer list and a search text drawn at the start
InitFilter ==
    /\ InitApp
    /\ view \in {[pc |-> "input", list |-> l, search |-> q, filtered |-> <<>>] :
                    l \in SearchLists(MaxRows), q \in Strings(MaxSearch)}
\* a render with that list and search text: the memo is computed
ComputeFilter ==
    /\ view.pc = "input"
    /\ view' = [view EXCEPT !.pc = "done", !.filtered = FilteredCustomers(view.list, view.search)]
    /\ UNCHANGED <<mounted, auth, customers, loading, authMode, notification, timers, now,
                   initPc, tasks, db, delivered, lastNotify, last, attempted>>
SpecFilter == InitFilter /\ [][ComputeFilter]_vars

\* a save submitted while auth events change the Session: the reload of the
\* save and the load of the reload effect in flight together
NextRace ==
    \/ Startup
    \/ \E user \in Users : SignedIn(user)
    \/ \E user \in Users : SignedInProfileReturns(user)
    \/ Loads
    \/ HandleSaveCustomer(NoId)
    \/ \E tenantId \in Users : SaveReturns(tenantId, NoId)
    \/ \E tenantId \in Users : SaveThrows(tenantId, NoId)
    \/ \E tenantId \in Users : ReloadReturns(tenantId)
    \/ \E tenantId \in Users : ReloadThrows(tenantId)
SpecRace == Init /\ [][NextRace]_vars

\* startup and auth events with the component staying mounted; the session
\* query and the profile fetch of initializeAuth eventually return or throw
NextMounted ==
    \/ Startup
    \/ \E user \in Users : SignedIn(user)
    \/ \E user \in Users : SignedInProfileReturns(user)
    \/ \E user \in Users : SignedInProfileThrows(user)
    \/ \E event \in {"SIGNED_OUT", "USER_DELETED"} : SignedOut(event)
    \/ \E user \in Users : TokenRefreshed(user)
    \/ Loads
SpecMountedFair == Init /\ [][NextMounted]_vars /\ WF_vars(Startup)

\* startup, every auth event and the user's login and logout, mounted
NextLoading ==
    \/ NextMounted
    \/ HandleAuth(TRUE)
    \/ SignInReturns
    \/ \E message \in AuthErrors : AuthCallThrows("signIn", message)
    \/ HandleLogout
    \/ SignOutReturns
    \/ SignOutThrows
SpecLoading == Init /\ [][NextLoading]_vars

----------------------------------------------------------------------------
(* Claims *)

ProfileFetches(ts) ==
    BagCardinality([t \in {x \in BagToSet(ts) : x.kind = "getProfile"} |-> ts[t]])

\* C1: in every reachable state every customer of the in-memory list has the
\* tenant id of the active profile, and the list is empty when no profile is
\* active.
C1_TenantIsolation ==
    /\ \A i \in 1..Len(customers) : customers[i].empresa_id = ProfileId(auth.profile)
    /\ auth.profile = NoProfile => customers = <<>>

\* C2: right after the handler has processed SIGNED_OUT or USER_DELETED on a
\* live subscription, isLoggedIn is false, the profile is absent and the
\* customer list is empty.
C2_SignedOutClears ==
    last.op = "SignedOut" =>
        /\ ~auth.isLoggedIn
        /\ auth.profile = NoProfile
        /\ customers = <<>>

\* C2 witness: a sign-out was handled while a reload of the signed-in tenant
\* was still in flight, and the session and list are cleared.
C2_Witness ==
    /\ last.op = "SignedOut"
    /\ \E u \in Users : Suspended(Task("fetchAll", u, NoId))
    /\ auth = LoggedOut
    /\ customers = <<>>

\* C3: once the cleanup has run (mounted false, subscription cancelled), no
\* later step changes the Session or the customer list.
C3_NoMutationAfterCancel ==
    [][~mounted => (auth' = auth /\ customers' = customers)]_vars

\* C4: once every handler has completed, the Session is the one the delivered
\* events give when applied one by one in delivery order: logged in exactly
\* when the last of them leaves it so, with no profile other than that of the
\* last SIGNED_IN user.
C4_DeliveryOrder ==
    (/\ mounted
     /\ delivered.tracking = "on"
     /\ ProfileFetches(tasks) = 0)
    => /\ auth.isLoggedIn = delivered.isLoggedIn
       /\ ProfileId(auth.profile) \in {NoUser, delivered.user}

\* C5: handling TOKEN_REFRESHED sets isLoggedIn, keeps the profile and the
\* Initializing flag as they were, starts no profile fetch and leaves the
\* customer list alone.
C5_TokenRefreshedFrame ==
    [][last'.op = "TokenRefreshed" =>
          /\ auth'.isLoggedIn
          /\ auth'.profile = auth.profile
          /\ auth'.loading = auth.loading
          /\ ProfileFetches(tasks') = ProfileFetches(tasks)
          /\ customers' = customers]_vars

\* C5 witness: a token refresh was handled with a profile loaded and a
\* customer list present, and both are still there.
C5_Witness ==
    /\ last.op = "TokenRefreshed"
    /\ auth.isLoggedIn
    /\ auth.profile # NoProfile
    /\ customers # <<>>

\* C6: a notification stays visible, as the last one notified, until 4
\* time-units after its own call, and is gone after that; the timeout of an
\* earlier call does not clear it.
C6_NotificationLifetime ==
    lastNotify.n # NoNotification =>
        /\ now < lastNotify.at + NotifyDelay => notification = lastNotify.n
        /\ now > lastNotify.at + NotifyDelay => notification = NoNotification

\* C7: the busy flag is set exactly when a user-triggered network-bound
\* operation is outstanding.
C7_BusyExact == loading <=> Outstanding(tasks) > 0

\* C8: at most one user-triggered network-bound operation is in flight.
C8_OneOperation == Outstanding(tasks) <= 1

\* C9: on startup with a session token, when the profile fetch throws the
\* Session ends logged in with the profile absent and Initializing false.
C9_InitProfileFailure ==
    (last.op = "InitProfileThrows" /\ mounted) => auth = LoggedIn(NoProfile)

\* C10: when the profile fetch of a SIGNED_IN handler returns the Session is
\* logged in with that user's profile, when it throws the Session is logged
\* in with the profile absent; Initializing is false in both cases.
C10_SignedInOutcome ==
    /\ last.op = "SignedInProfileReturns" => auth = LoggedIn(GetProfile(last.who))
    /\ last.op = "SignedInProfileThrows" => auth = LoggedIn(NoProfile)

\* C10 witness: the profile fetch of a SIGNED_IN handler has thrown on a
\* live subscription and the Session is logged in without a profile.
C10_Witness ==
    /\ mounted
    /\ last.op = "SignedInProfileThrows"
    /\ auth.isLoggedIn
    /\ auth.profile = NoProfile
    /\ ~auth.loading

\* C11: in every reachable state, isLoggedIn implies that getProfile was
\* called for the current login since the Session was last logged out.
C11_LoggedInAttempted == auth.isLoggedIn => attempted

\* C12: a loaded profile changes only in a step of the handler of SIGNED_IN
\* (replaced) or of SIGNED_OUT / USER_DELETED (cleared).
C12_ProfileStable ==
    [][(auth.profile # NoProfile /\ auth'.profile # auth.profile) =>
          last'.op \in {"SignedInProfileReturns", "SignedInProfileThrows", "SignedOut"}]_vars

\* C13: the reload effect starts a customer fetch exactly in the steps that
\* leave the Session logged in with a loaded profile whose id differs from
\* the profile id before (none counts as different); TOKEN_REFRESHED starts none.
C13_ReloadTrigger ==
    [][/\ (FetchAlls(tasks') > FetchAlls(tasks)) <=>
             (/\ auth'.isLoggedIn
              /\ auth'.profile # NoProfile
              /\ ProfileId(auth'.profile) # ProfileId(auth.profile))
       /\ last'.op = "TokenRefreshed" => FetchAlls(tasks') = FetchAlls(tasks)]_vars

\* C13 witness: SIGNED_IN of another user was handled while the list still
\* held the previous tenant's record, and the reload for the new tenant is
\* in flight.
C13_Witness ==
    /\ last.op = "SignedInProfileReturns"
    /\ auth = LoggedIn(GetProfile(last.who))
    /\ customers # <<>>
    /\ customers[1].empresa_id # last.who
    /\ Suspended(Task("fetchAll", last.who, NoId))

\* C14: signUp submitted without the terms accepted fails locally: no call
\* is suspended in the Auth service, an error notification is raised, the
\* Session, the list and the auth mode are unchanged and the busy flag is clear.
C14_SignUpWithoutTerms ==
    [][last'.op = "HandleAuthNoTerms" =>
          /\ tasks' = tasks
          /\ notification'.type = "error"
          /\ lastNotify'.n = notification'
          /\ auth' = auth
          /\ customers' = customers
          /\ authMode' = authMode
          /\ ~loading']_vars

\* C14 witness: the signup form was submitted without the terms; the error
\* is notified, nothing is in flight and the form is still in signup mode.
C14_Witness ==
    /\ last.op = "HandleAuthNoTerms"
    /\ authMode = "signup"
    /\ notification.type = "error"
    /\ Outstanding(tasks) = 0
    /\ ~loading

AuthUserOps ==
    {"HandleAuth", "HandleAuthNoTerms", "SignUpReturns", "SignInReturns", "AuthCallThrows",
     "HandleLogout", "SignOutReturns", "SignOutThrows"}
SessionOps ==
    {"GetSessionReturns", "GetSessionThrows", "InitProfileReturns", "InitProfileThrows",
     "SignedIn", "SignedInProfileReturns", "SignedInProfileThrows", "SignedOut",
     "TokenRefreshed"}

\* C15: no step of handleAuth or handleLogout changes isLoggedIn, the profile
\* or the customer list; isLoggedIn and the profile change only in steps of
\* initializeAuth and of the auth-event handler; a successful signUp leaves
\* isLoggedIn as it was and the auth mode at login.
C15_UserActionsFrame ==
    [][/\ last'.op \in AuthUserOps =>
             /\ auth'.isLoggedIn = auth.isLoggedIn
             /\ auth'.profile = auth.profile
             /\ customers' = customers
       /\ (auth'.isLoggedIn # auth.isLoggedIn \/ auth'.profile # auth.profile) =>
             last'.op \in SessionOps
       /\ last'.op = "SignUpReturns" => authMode' = "login"]_vars

\* C15 witness: a signUp has returned; the user is not logged in, the form is
\* back in login mode and the confirmation is notified.
C15_Witness ==
    /\ last.op = "SignUpReturns"
    /\ ~auth.isLoggedIn
    /\ auth.profile = NoProfile
    /\ authMode = "login"
    /\ notification.type = "success"

\* new is old without the records of that id, the others at their relative places
RemovesOnly(old, new, id) ==
    /\ Len(new) = Cardinality({i \in DOMAIN old : old[i].id # id})
    /\ \A i \in DOMAIN old :
          old[i].id # id =>
             new[i - Cardinality({j \in 1..i : old[j].id = id})] = old[i]

\* C16: when hardDelete(id) returns, the list loses exactly the record of
\* that id, the others stay in their order and no fetch is started; when it
\* throws, the list is unchanged and an error notification is raised.
C16_DeleteRemovesOne ==
    [][/\ last'.op = "HardDeleteReturns" =>
             \E id \in CustomerIds :
                /\ Suspended(Task("hardDelete", last'.who, id))
                /\ tasks' = Resume(tasks, Task("hardDelete", last'.who, id))
                /\ RemovesOnly(customers, customers', id)
       /\ last'.op = "HardDeleteThrows" =>
             /\ customers' = customers
             /\ notification'.type = "error"
             /\ lastNotify'.n = notification'
             /\ Outstanding(tasks') < Outstanding(tasks)]_vars

\* C16 witness: the first of two listed records was deleted; the second is
\* still listed.
C16_Witness ==
    /\ last.op = "HardDeleteReturns"
    /\ Customer("c1", "u1") \notin db
    /\ customers = <<Customer("c3", "u1")>>
    /\ notification.type = "success"

Count(list, c) == Cardinality({i \in DOMAIN list : list[i] = c})
ListsOnce(list, records) ==
    /\ \A c \in records : Count(list, c) = 1
    /\ \A i \in DOMAIN list : list[i] \in records

\* C17: an accepted save with id absent adds one new record of the tenant to
\* the service, and when the reload that follows returns, the list holds each
\* of the tenant's records of the service exactly once and nothing else.
C17_SavedOnce ==
    [][/\ (last'.op = "SaveReturns" /\ Suspended(Task("save", last'.who, NoId))
             /\ tasks' = Suspend(Resume(tasks, Task("save", last'.who, NoId)),
                                 Task("reload", last'.who, NoId))) =>
             \E c \in db' \ db : /\ db' = db \cup {c}
                                 /\ c.empresa_id = last'.who
                                 /\ \A d \in db : d.id # c.id
       /\ last'.op = "ReloadReturns" =>
             ListsOnce(customers', {c \in db : c.empresa_id = last'.who})]_vars

\* C17 witness: the reload after a save of a new record has returned; the
\* list holds the tenant's earlier record and the new one.
C17_Witness ==
    /\ last.op = "ReloadReturns"
    /\ Len(customers) = 2
    /\ \E i \in DOMAIN customers :
          customers[i] \notin InitialDb /\ customers[i].empresa_id = last.who

\* C18: when the fetch of loadCustomers returns, the list is the service's
\* records of that tenant; when it throws, the list is unchanged, the failure
\* is notified as an error and the caller goes on as after a return (the
\* reload in handleSaveCustomer continues to its success notification).
C18_LoadAllOutcome ==
    [][/\ last'.op \in {"LoadCustomersReturns", "ReloadReturns"} =>
             ListsOnce(customers', {c \in db : c.empresa_id = last'.who})
       /\ last'.op = "LoadCustomersThrows" =>
             /\ customers' = customers
             /\ notification' = Notification("Falha ao carregar lista de clientes.", "error")
             /\ lastNotify'.n = notification'
       /\ last'.op = "ReloadThrows" =>
             /\ customers' = customers
             /\ notification'.message = "Alterações salvas com sucesso."
             /\ ~loading']_vars

\* C18 witness: a fetch of the reload effect has failed while the list held
\* records; they are still listed and the failure is notified.
C18_Witness ==
    /\ last.op = "LoadCustomersThrows"
    /\ customers # <<>>
    /\ notification.type = "error"

\* C19: a step in which a service call of a user operation fails ends with an
\* error notification raised, the busy flag clear, and the Session and the
\* list as they were.
C19_FailureReported ==
    [][last'.op \in {"AuthCallThrows", "SaveThrows", "ReloadThrows", "HardDeleteThrows",
                     "SignOutThrows"} =>
          /\ notification'.type = "error"
          /\ ~loading'
          /\ auth' = auth
          /\ customers' = customers]_vars

\* C20: for every list, total is its length, active is the number of records
\* of status active, and active + inactive = total.
C20_StatsPartition ==
    view.pc = "done" =>
       /\ view.stats.total = Len(view.list)
       /\ view.stats.active =
             Cardinality({i \in DOMAIN view.list : view.list[i].status = ACTIVE})
       /\ view.stats.active + view.stats.inactive = view.stats.total

\* C20 witness: the stats of a list with a pending record and an active one
\* were computed; the pending record is counted as inactive.
C20_Witness ==
    /\ view.pc = "done"
    /\ \E i \in DOMAIN view.list : view.list[i].status = PENDING
    /\ \E i \in DOMAIN view.list : view.list[i].status = ACTIVE
    /\ \A i \in DOMAIN view.list : view.list[i].status # INACTIVE
    /\ view.stats.inactive >= 1

\* the search text occurs in the name with the cases ignored, or in the phone as typed
MatchesSearch(c, q) ==
    \/ \E i \in 0..(Len(c.name) - Len(q)) :
          \A k \in 1..Len(q) : LowerChar(c.name[i + k]) = LowerChar(q[k])
    \/ \E i \in 0..(Len(c.phone) - Len(q)) :
          \A k \in 1..Len(q) : c.phone[i + k] = q[k]

\* C21: for every list, the filter with the empty search text gives the list
\* itself, and with any search text gives the records that match it (name with
\* the cases ignored, or phone as typed) at their relative places.
C21_FilterSubsequence ==
    view.pc = "done" =>
       /\ view.search = <<>> => view.filtered = view.list
       /\ Len(view.filtered) =
             Cardinality({i \in DOMAIN view.list : MatchesSearch(view.list[i], view.search)})
       /\ \A i \in DOMAIN view.list :
             MatchesSearch(view.list[i], view.search) =>
                view.filtered[i - Cardinality({j \in 1..i :
                                  ~MatchesSearch(view.list[j], view.search)})] = view.list[i]

\* C21 witness: a search text with a capital was applied to two records; the
\* second matches by its name in another case only and is the one kept.
C21_Witness ==
    /\ view.pc = "done"
    /\ view.search = <<"A", "n">>
    /\ Len(view.list) = 2
    /\ view.list[1].name = <<"n", "A">>
    /\ view.list[2].name = <<"a", "n">>
    /\ view.filtered = <<view.list[2]>>

\* C22: when a reload of a save and a load of the reload effect were in
\* flight together and the one that resolved last has returned, the list is
\* that fetch's result as a whole: the tenant's records of the service, once
\* each and nothing else.
C22_LastFetchWins ==
    (last.race = "last" /\ last.op \in {"LoadCustomersReturns", "ReloadReturns"}) =>
       ListsOnce(customers, {c \in db : c.empresa_id = last.who})

\* C22 witness: u1's reload after a save and u2's load after SIGNED_IN were in
\* flight together; the reload listed u1's two records, the load resolved
\* last and the list is u2's record alone.
C22_Witness ==
    /\ last = [op |-> "LoadCustomersReturns", who |-> "u2", race |-> "last"]
    /\ Customer("c3", "u1") \in db
    /\ notification.message = "Alterações salvas com sucesso."
    /\ customers = <<Customer("c2", "u2")>>

\* C23: with the component mounted and the session query and the profile
\* fetch eventually returning or throwing, initializeAuth eventually ends and
\* Initializing is false from then on, on every startup path.
C23_InitializingClears == <>[](initPc.pc = "done" /\ ~auth.loading)

\* C23 witness: the startup path of a token whose profile fetch throws has
\* ended with Initializing false.
C23_Witness ==
    /\ mounted
    /\ last.op = "InitProfileThrows"
    /\ initPc.pc = "done"
    /\ ~auth.loading

\* C24: in every reachable state a loaded profile implies isLoggedIn.
C24_ProfileImpliesLoggedIn == auth.profile # NoProfile => auth.isLoggedIn

\* C24 witness: the session query returned while the handler of a SIGNED_IN
\* event had already loaded a profile; the Session is logged in with it.
C24_Witness ==
    /\ last.op = "GetSessionReturns"
    /\ initPc.pc = "getProfile"
    /\ auth.profile # NoProfile
    /\ auth.isLoggedIn

\* C25: once Initializing is false no step sets it to true again.
C25_InitializingStaysFalse == [][~auth.loading => ~auth'.loading]_vars

\* C25 witness: after Initializing was cleared the user logged out, and
\* TOKEN_REFRESHED was handled while that signOut was in flight; it is still
\* false.
C25_Witness ==
    /\ last.op = "TokenRefreshed"
    /\ Suspended(Task("signOut", NoUser, NoId))
    /\ auth.isLoggedIn
    /\ ~auth.loading

====
